---- MODULE Spec2Model ----
(***************************************************************************)
(* A model of HtmlRefactorer (src/main.py): the batch pipeline             *)
(*   _extract_common_head_and_footer -> _mine_and_tag_candidates ->        *)
(*   _cluster_candidates -> _extract_partials -> _replace_in_files.        *)
(*                                                                         *)
(* A page is what the parser hands back: a title, the elements of its      *)
(* head, the script sources of its body, and the elements of its body that *)
(* the miner can look at, in document order, each with the index of the    *)
(* modelled element that encloses it (0: a direct child of body).          *)
(* The two hashes of an element (datasketch MinHash over tag-path          *)
(* shingles, Simhash over tag names) are external: an element carries the  *)
(* shingles of the paths that start at it and its fingerprint bits; its    *)
(* shingle set is those of its paths and of the paths of the elements it   *)
(* encloses, and the model computes Hamming distance on the fingerprints.  *)
(* Which pairs of overlapping shingle sets share a band of the LSH index   *)
(* is fixed by the sketches, outside the program.                          *)
(* The order in which a Python set of strings is iterated is fixed by the  *)
(* process's hash seed, outside the program: the model records the order   *)
(* each set was seen in, so that one process walks equal sets equally.     *)
(***************************************************************************)
EXTENDS Integers, Sequences, FiniteSets, TLC

VARIABLES
  corpus,          \* all_html_files, sorted: the pages of the run
  bands,           \* the pairs of unequal shingle sets whose sketches collide
  tagorder,        \* this process's iteration order of each found_tags set
  keyorder,        \* this process's iteration order of each set of near keys
  pc,              \* the stage of run()
  title_meta,      \* partials/title-meta.html
  head_css,        \* partials/head-css.html
  footer_scripts,  \* partials/footer-scripts.html
  page_titles,     \* self.page_titles
  common_js_srcs,  \* self.common_js_srcs
  docPos,          \* position of the page loops (mining, replacing)
  idx,             \* the id counter of _mine_and_tag_candidates
  items,           \* self.items: key -> candidate
  lsh,             \* the keys inserted in self.lsh
  marker,          \* data-refactor-id of every live element, per page
  soups,           \* self.soups, in insertion order
  failed,          \* pages whose mining raised
  visited,         \* _cluster_candidates' visited set
  clusters,        \* self.clusters before extraction: lists of keys
  seedPos,         \* position in sorted_keys
  seedOrder,       \* history: the keys that became seeds, in order
  decisions,       \* history: every (seed, near key) the inner loop looked at
  partials,        \* final_clusters_info, with each written partial body
  out,             \* the written output documents
  prev             \* the result of the previous run over this corpus

vars == << corpus, bands, tagorder, keyorder, pc, title_meta, head_css, footer_scripts,
           page_titles, common_js_srcs, docPos, idx, items, lsh, marker,
           soups, failed, visited, clusters, seedPos, seedOrder, decisions,
           partials, out, prev >>

orderVars == << tagorder, keyorder >>
headVars == << title_meta, head_css, footer_scripts, page_titles, common_js_srcs >>
mineVars == << idx, items, lsh, marker, soups, failed >>
clusterVars == << visited, clusters, seedPos, seedOrder, decisions >>

----------------------------------------------------------------------------
(* Program constants *)

MIN_NODE_COUNT == 30
SIMHASH_DISTANCE == 6
\* NODE_COUNT_SIMILARITY = 0.85, in hundredths
NODE_COUNT_SIMILARITY == 85

PRIORITY_TAGS == << "header", "nav", "footer", "aside" >>
TOP_LEVEL_TAGS == {"div", "section"}

(* Bounds of the model *)
MaxDocs == 2
MaxFlatDocs == 3
OrderDocs == 11
MaxSameDocs == 3

NoKey == 0 - 1
NoRun == [run |-> "none"]

----------------------------------------------------------------------------
(* Generic helpers *)

Min(a, b) == IF a <= b THEN a ELSE b
Max(a, b) == IF a >= b THEN a ELSE b
Range(s) == { s[i] : i \in DOMAIN s }

RECURSIVE SortedSeq(_)
\* the elements of a finite set of integers, ascending
SortedSeq(S) ==
  IF S = {} THEN << >>
  ELSE LET m == CHOOSE x \in S : \A y \in S : x <= y
       IN << m >> \o SortedSeq(S \ {m})

RECURSIVE Flatten(_)
Flatten(ss) == IF ss = << >> THEN << >> ELSE Head(ss) \o Flatten(Tail(ss))

\* Iteration orders of a Python set of n members that hash by their string
\* (Tag.__hash__ is hash(str(tag)); the keys are str): the members sit in the
\* table by hash value, so for some hash seed any order of them comes out.
\* An order is given as the permutation it applies to a base sequence.
IterOrders(n) == Permutations(1..n)

\* the base sequence base in the order perm
InOrder(base, perm) == [ i \in 1..Len(base) |-> base[perm[i]] ]

----------------------------------------------------------------------------
(* Elements and pages *)

El(tag, nodes, comments, sig, fp, canon, var) ==
  [ tag |-> tag, nodes |-> nodes, comments |-> comments, sig |-> sig,
    fp |-> fp, canon |-> canon, var |-> var, parent |-> 0 ]
In(e, p) == [ e EXCEPT !.parent = p ]

Children(page, n) == { c \in DOMAIN page : page[c].parent = n }

RECURSIVE Subtree(_, _)
Subtree(page, n) ==
  {n} \cup UNION { Subtree(page, c) : c \in Children(page, n) }

RECURSIVE SumOver(_, _)
SumOver(f, S) ==
  IF S = {} THEN 0
  ELSE LET x == CHOOSE y \in S : TRUE IN f[x] + SumOver(f, S \ {x})

\* _get_node_size on the live element: element descendants plus non-blank
\* string descendants; find_all(string=...) matches comments as well
GetNodeSize(page, n) ==
  LET D == Subtree(page, n)
  IN SumOver([ c \in D |-> page[c].nodes + page[c].comments ], D)
     + (Cardinality(D) - 1)

\* _get_node_size on the canonical copy: _canonicalize has removed the comments
CanonNodeSize(page, n) ==
  LET D == Subtree(page, n)
  IN SumOver([ c \in D |-> page[c].nodes ], D) + (Cardinality(D) - 1)

RECURSIVE TagEq(_, _, _)
\* Tag.__eq__: same name, attributes and contents, recursively
TagEq(page, a, b) ==
  /\ [ page[a] EXCEPT !.parent = 0 ] = [ page[b] EXCEPT !.parent = 0 ]
  /\ LET ca == SortedSeq(Children(page, a))
         cb == SortedSeq(Children(page, b))
     IN /\ Len(ca) = Len(cb)
        /\ \A i \in 1..Len(ca) : TagEq(page, ca[i], cb[i])

\* the size test of lines 254 and 258
BigEnough(page, n) == GetNodeSize(page, n) >= MIN_NODE_COUNT

\* lines 252-259: what the two find_all loops offer to found_tags
Eligible(page, n) ==
  /\ \/ page[n].tag \in Range(PRIORITY_TAGS)
     \/ page[n].tag \in TOP_LEVEL_TAGS /\ page[n].parent = 0
  /\ BigEnough(page, n)

\* found_tags: a set of Tags, so an element equal to one already in it is dropped
FoundTags(page) ==
  { n \in DOMAIN page :
      /\ Eligible(page, n)
      /\ ~ \E m \in DOMAIN page : m < n /\ Eligible(page, m) /\ TagEq(page, m, n) }

\* the loop a tag name is searched in: the position of a priority tag in
\* PRIORITY_TAGS (lines 252-253), after them the div/section loop (line 257)
FindLoop(tag) ==
  IF \E i \in DOMAIN PRIORITY_TAGS : PRIORITY_TAGS[i] = tag
    THEN CHOOSE i \in DOMAIN PRIORITY_TAGS : PRIORITY_TAGS[i] = tag
    ELSE Len(PRIORITY_TAGS) + 1

\* the members of found_tags in the order found_tags.add() received them:
\* loop by loop, each loop in document order
InsertionOrder(page) ==
  Flatten([ r \in 1..(Len(PRIORITY_TAGS) + 1) |->
              SortedSeq({ n \in FoundTags(page) : FindLoop(page[n].tag) = r }) ])

RECURSIVE Markup(_, _)
\* str(tag) before any marker is set: the element and its contents
Markup(page, n) ==
  LET cs == SortedSeq(Children(page, n))
  IN [ el |-> [ page[n] EXCEPT !.parent = 0 ],
       contents |-> [ i \in 1..Len(cs) |-> Markup(page, cs[i]) ] ]

----------------------------------------------------------------------------
(* Keys: "c_<idx>", compared as Python compares strings *)

RECURSIVE Digits(_)
Digits(k) == IF k < 10 THEN << k >> ELSE Digits(k \div 10) \o << k % 10 >>

RECURSIVE SeqLess(_, _)
SeqLess(a, b) ==
  IF a = << >> THEN b # << >>
  ELSE IF b = << >> THEN FALSE
  ELSE IF Head(a) # Head(b) THEN Head(a) < Head(b)
  ELSE SeqLess(Tail(a), Tail(b))

\* "c_a" < "c_b" for str
KeyLess(a, b) == SeqLess(Digits(a), Digits(b))

\* the keys sorted by their number instead
SortedByNumber(S) == SortedSeq(S)

RECURSIVE SortedKeys(_)
\* sorted(self.items.keys())
SortedKeys(S) ==
  IF S = {} THEN << >>
  ELSE LET m == CHOOSE x \in S : \A y \in S \ {x} : KeyLess(x, y)
       IN << m >> \o SortedKeys(S \ {m})

----------------------------------------------------------------------------
(* Similarity *)

\* _get_minhash, lines 130-139: the 3-shingles of the root-to-leaf paths of
\* an element. Every path of an enclosed element is the tail of a path of the
\* enclosing one, so the set holds the shingles of everything inside it.
Shingles(page, n) == UNION { page[c].sig : c \in Subtree(page, n) }

\* the shingle sets of the elements a run can insert in the index
Sketches(c) ==
  UNION { { Shingles(c[d].body, n) :
              n \in { m \in DOMAIN c[d].body :
                        Eligible(c[d].body, m) /\ c[d].body[m].canon = "ok" } } :
          d \in DOMAIN c }

\* the pairs of shingle sets for which the index can answer either way: equal
\* sets have equal sketches and always share every band, disjoint sets share
\* no minimum and never share one, overlapping sets share a band or not
NearPairs(c) ==
  { P \in { { a, b } : a \in Sketches(c), b \in Sketches(c) } :
      \E a \in P : \E b \in P : a # b /\ a \cap b # {} }

\* MinHashLSH.query: the key of shingle set b is returned for a query with
\* the sketch of shingle set a when the two sketches agree on a whole band
LshHit(a, b) == a = b \/ { a, b } \in bands

\* Simhash.distance: the number of differing fingerprint bits
Distance(a, b) == Cardinality((a \ b) \cup (b \ a))

\* line 310 with ">=" for ">"
FingerprintCloseStrict(a, b) == ~ (Distance(a, b) >= SIMHASH_DISTANCE)

\* line 310: the fingerprint test that lets a near key through
FingerprintClose(a, b) == ~ (Distance(a, b) > SIMHASH_DISTANCE)

\* line 314: the size test that lets a near key through
SizeClose(n1, n2) ==
  ~ (n1 > 0 /\ n2 > 0
     /\ 100 * Min(n1, n2) < NODE_COUNT_SIMILARITY * Max(n1, n2))

----------------------------------------------------------------------------
(* _mine_and_tag_candidates *)

\* lines 262-280 for one tag of found_tags; st is the loop's state
TagOne(st, d, n) ==
  LET page == corpus[d].body
      key == st.idx
      mark == [ st.mark EXCEPT ![n] = key ]
      raw == [ c \in Subtree(page, n) |-> mark[c] ]
  IN IF st.raised THEN st
     ELSE IF page[n].canon = "raises"
       THEN [ st EXCEPT !.mark = mark, !.raised = TRUE ]
     ELSE IF page[n].canon = "none"
       THEN [ st EXCEPT !.mark = mark ]
     ELSE [ st EXCEPT
              !.mark = mark,
              !.lsh = @ \cup {key},
              !.items = @ @@ (key :> [ page |-> d, node |-> n, raw |-> raw,
                                      sig |-> Shingles(page, n), fp |-> page[n].fp,
                                      size |-> CanonNodeSize(page, n) ]),
              !.idx = @ + 1 ]

RECURSIVE TagAll(_, _, _)
\* the loop "for tag in found_tags"
TagAll(st, d, order) ==
  IF order = << >> THEN st
  ELSE TagAll(TagOne(st, d, Head(order)), d, Tail(order))

\* one iteration of the page loop, lines 246-285
MineDoc ==
  /\ pc = "mine"
  /\ docPos <= Len(corpus)
  /\ LET d == docPos
         page == corpus[d].body
         inserted == InsertionOrder(page)
         strings == [ i \in 1..Len(inserted) |-> Markup(page, inserted[i]) ]
     IN \E perm \in IterOrders(Len(inserted)) :
          \* a set built from the same strings in the same order is walked
          \* in the same order for the whole life of the process
          /\ \A m \in tagorder : m.strings = strings => m.perm = perm
          /\ tagorder' = tagorder \cup { [ strings |-> strings, perm |-> perm ] }
          /\ LET st0 == [ idx |-> idx, items |-> items, lsh |-> lsh,
                          mark |-> marker[d], raised |-> FALSE ]
                 st == TagAll(st0, d, InOrder(inserted, perm))
                 last == docPos = Len(corpus)
             IN /\ idx' = st.idx
                /\ items' = st.items
                /\ lsh' = st.lsh
                /\ marker' = [ marker EXCEPT ![d] = st.mark ]
                /\ soups' = IF st.raised THEN soups ELSE Append(soups, d)
                /\ failed' = IF st.raised THEN failed \cup {d} ELSE failed
                /\ docPos' = IF last THEN 1 ELSE docPos + 1
                /\ pc' = IF ~ last THEN "mine"
                         ELSE IF DOMAIN st.items = {} THEN "extract" ELSE "cluster"
  /\ UNCHANGED << corpus, bands, keyorder, headVars, clusterVars, partials, out, prev >>

----------------------------------------------------------------------------
(* _cluster_candidates *)

\* lines 304-315 without the "nk in visited" test of line 304
AcceptsClaimed(key, nk, seen) ==
  /\ ~ (nk = key)
  /\ FingerprintClose(items[key].fp, items[nk].fp)
  /\ SizeClose(items[key].size, items[nk].size)

\* lines 304-315: whether near key nk joins the cluster of seed key
Accepts(key, nk, seen) ==
  /\ ~ (nk = key \/ nk \in seen)
  /\ FingerprintClose(items[key].fp, items[nk].fp)
  /\ SizeClose(items[key].size, items[nk].size)

\* self.lsh.query(seed_mh): the set of keys the returned list is made from
Query(key) == { nk \in lsh : LshHit(items[key].sig, items[nk].sig) }

RECURSIVE Grow(_, _, _)
\* the loop "for nk in near_keys"; st is [cluster, visited, log]
Grow(st, key, near) ==
  IF near = << >> THEN st
  ELSE LET nk == Head(near)
           ok == Accepts(key, nk, st.visited)
           log == st.log \cup { [ seed |-> key, nk |-> nk,
                                  claimed |-> nk \in st.visited ] }
       IN Grow([ cluster |-> IF ok THEN Append(st.cluster, nk) ELSE st.cluster,
                 visited |-> IF ok THEN st.visited \cup {nk} ELSE st.visited,
                 log |-> log ],
               key, Tail(near))

\* whether a finished cluster is kept, line 320
Kept(cluster) == Len(cluster) > 1

\* one iteration of "for key in sorted_keys", lines 292-321
ClusterSeed ==
  /\ pc = "cluster"
  /\ LET sorted_keys == SortedKeys(DOMAIN items)
         key == sorted_keys[seedPos]
         last == seedPos = Len(sorted_keys)
     IN /\ seedPos <= Len(sorted_keys)
        /\ IF key \in visited
             THEN UNCHANGED << visited, clusters, seedOrder, decisions, keyorder >>
             ELSE LET hits == Query(key)
                  IN \E perm \in IterOrders(Cardinality(hits)) :
                       \* near_keys = list(set of keys): the same set of keys
                       \* comes out in the same order within one process
                       /\ \A m \in keyorder : m.keys = hits => m.perm = perm
                       /\ keyorder' = keyorder \cup { [ keys |-> hits, perm |-> perm ] }
                       /\ LET near_keys == InOrder(SortedSeq(hits), perm)
                              st == Grow([ cluster |-> << key >>,
                                           visited |-> visited \cup {key},
                                           log |-> decisions ],
                                         key, near_keys)
                          IN /\ visited' = st.visited
                             /\ decisions' = st.log
                             /\ seedOrder' = Append(seedOrder, key)
                             /\ clusters' = IF Kept(st.cluster)
                                              THEN Append(clusters, st.cluster)
                                              ELSE clusters
        /\ seedPos' = IF last THEN 1 ELSE seedPos + 1
        /\ pc' = IF last THEN "extract" ELSE "cluster"
  /\ UNCHANGED << corpus, bands, tagorder, headVars, docPos, mineVars, partials, out, prev >>
----------------------------------------------------------------------------
(* _extract_partials *)

\* lines 338-344: the representative's raw markup, re-parsed, with the marker
\* of its root element deleted
StripMarker(item) ==
  [ source |-> "raw_tag_html", page |-> item.page, node |-> item.node,
    marks |-> [ item.raw EXCEPT ![item.node] = NoKey ] ]

\* cluster[0], the medoid of line 329
Medoid(cluster) == cluster[1]

\* lines 328-357 for cluster number i
PartialOf(i) ==
  LET cluster == clusters[i]
      medoid == items[Medoid(cluster)]
  IN [ partial_file |-> << i, corpus[medoid.page].body[medoid.node].tag >>,
       medoid |-> Medoid(cluster),
       body |-> StripMarker(medoid),
       instances |-> [ j \in 1..Len(cluster) |->
                         [ refactor_id |-> cluster[j],
                           source_file |-> items[cluster[j]].page ] ] ]

ExtractPartials ==
  /\ pc = "extract"
  /\ partials' = [ i \in 1..Len(clusters) |-> PartialOf(i) ]
  /\ docPos' = 1
  /\ pc' = IF soups = << >> THEN "done" ELSE "replace"
  /\ UNCHANGED << corpus, bands, orderVars, headVars, mineVars, clusterVars, out, prev >>

----------------------------------------------------------------------------
(* _replace_in_files *)

\* lines 368-373: the (partial, instance) pairs of page p, in loop order
InstancesOf(p) ==
  Flatten([ i \in 1..Len(partials) |->
              LET inst == partials[i].instances
              IN SelectSeq([ j \in 1..Len(inst) |->
                               [ partial_file |-> partials[i].partial_file,
                                 ref_id |-> inst[j].refactor_id,
                                 source_file |-> inst[j].source_file ] ],
                           LAMBDA x : x.source_file = p) ])

\* line 374: soup.find(attrs={"data-refactor-id": ref_id}), the first element
\* in document order that is still in the tree and carries the marker
FindMarked(p, tree, ref_id) ==
  { n \in DOMAIN tree :
      /\ tree[n] = << "inline" >> /\ marker[p][n] = ref_id
      /\ \A m \in DOMAIN tree :
           (tree[m] = << "inline" >> /\ marker[p][m] = ref_id) => n <= m }

\* line 376: target.replace_with(include)
ReplaceWith(p, tree, n, partial_file) ==
  [ m \in DOMAIN tree |->
      IF m = n THEN << "include", partial_file >>
      ELSE IF m \in Subtree(corpus[p].body, n) THEN << "detached" >>
      ELSE tree[m] ]

RECURSIVE ReplaceAll(_, _, _)
ReplaceAll(p, tree, insts) ==
  IF insts = << >> THEN tree
  ELSE LET target == FindMarked(p, tree, Head(insts).ref_id)
       IN ReplaceAll(p,
            IF target = {} THEN tree
            ELSE ReplaceWith(p, tree, CHOOSE n \in target : TRUE,
                             Head(insts).partial_file),
            Tail(insts))

\* lines 381-387: the head elements the rewriter decomposes
Decomposed(e) ==
  IF e.tag = "link" THEN e.rel = << "stylesheet" >>
  ELSE e.tag \in { "title", "meta", "style", "script" }

\* one iteration of "for p, soup in self.soups.items()", lines 364-407
ReplaceInFile ==
  /\ pc = "replace"
  /\ docPos <= Len(soups)
  /\ LET p == soups[docPos]
         tree0 == [ n \in DOMAIN corpus[p].body |-> << "inline" >> ]
         page_title == page_titles[p]
         tree == ReplaceAll(p, tree0, InstancesOf(p))
         doc == [ tree |-> tree,
                  \* prettify() writes the markers of the elements left inline
                  ids |-> [ n \in DOMAIN tree |->
                              IF tree[n] = << "inline" >> THEN marker[p][n]
                              ELSE NoKey ],
                  head |-> { e \in corpus[p].head : ~ Decomposed(e) },
                  decomposed |-> { e \in corpus[p].head : Decomposed(e) },
                  title_meta_include |->
                    IF page_title # << >>
                      THEN << "title-meta.html", page_title >>
                      ELSE << "title-meta.html" >>,
                  head_css_include |-> << "head-css.html" >>,
                  scripts |-> corpus[p].scripts \ common_js_srcs,
                  footer_include |-> << "footer-scripts.html" >> ]
     IN out' = out @@ (p :> doc)
  /\ docPos' = docPos + 1
  /\ pc' = IF docPos = Len(soups) THEN "done" ELSE "replace"
  /\ UNCHANGED << corpus, bands, orderVars, headVars, mineVars, clusterVars, partials, prev >>
----------------------------------------------------------------------------
(* _extract_common_head_and_footer *)

HeadEl(tag, charset, rel, src, inline, var) ==
  [ tag |-> tag, charset |-> charset, rel |-> rel, src |-> src,
    inline |-> inline, var |-> var ]

RECURSIVE CommonSuffixLen(_, _)
\* lines 159-167: how many trailing characters all the strings share
CommonSuffixLen(strings, i) ==
  IF /\ \A k \in DOMAIN strings : i < Len(strings[k])
     /\ \A k \in DOMAIN strings :
          strings[k][Len(strings[k]) - i] = strings[1][Len(strings[1]) - i]
    THEN CommonSuffixLen(strings, i + 1)
    ELSE i

\* _longest_common_suffix
LongestCommonSuffix(strings) ==
  IF strings = << >> THEN << >>
  ELSE LET n == CommonSuffixLen(strings, 0)
           t == strings[1]
       IN SubSeq(t, Len(t) - n + 1, Len(t))

STRIP_CHARS == { " ", "|", "-" }

RECURSIVE Strip(_)
\* str.strip(" |-")
Strip(t) ==
  IF t = << >> THEN t
  ELSE IF Head(t) \in STRIP_CHARS THEN Strip(Tail(t))
  ELSE IF t[Len(t)] \in STRIP_CHARS THEN Strip(SubSeq(t, 1, Len(t) - 1))
  ELSE t

RECURSIVE Intersection(_)
\* set.intersection(*sets) of a non-empty list of sets
Intersection(sets) ==
  IF Len(sets) = 1 THEN sets[1]
  ELSE sets[1] \cap Intersection(Tail(sets))

\* the four filters of lines 186-195
IsCommonMeta(e) == e.tag = "meta" /\ ~ e.charset
IsCommonLink(e) == e.tag = "link" /\ e.rel # << "stylesheet" >>
IsCommonStyle(e) == e.tag = "style"
\* line 195 keeping only the scripts that have a src
IsCommonHeadScriptSrcOnly(e) == e.tag = "script" /\ e.src
IsCommonHeadScript(e) == e.tag = "script" /\ (e.src \/ e.inline)
\* find_all("link", rel="stylesheet"), line 221: any rel token matches
IsStylesheetLink(e) == e.tag = "link" /\ "stylesheet" \in Range(e.rel)

\* the filter of lines 186-195 for one kind of head element
KeptInHead(kind, e) ==
  CASE kind = "meta" -> IsCommonMeta(e)
    [] kind = "link" -> IsCommonLink(e)
    [] kind = "style" -> IsCommonStyle(e)
    [] kind = "script" -> IsCommonHeadScript(e)

\* lines 199-202: the elements of one kind kept in every page's head
CommonOf(kind) ==
  Intersection([ d \in 1..Len(corpus) |->
                   { e \in corpus[d].head : KeptInHead(kind, e) } ])

ExtractCommonHeadAndFooter ==
  /\ pc = "head"
  /\ LET titles == [ d \in 1..Len(corpus) |-> corpus[d].title ]
         common_suffix == LongestCommonSuffix(titles)
         common_js == Intersection([ d \in 1..Len(corpus) |-> corpus[d].scripts ])
     IN /\ page_titles' =
             [ d \in 1..Len(corpus) |->
                 IF common_suffix # << >>
                   THEN Strip(SubSeq(titles[d], 1,
                                     Len(titles[d]) - Len(common_suffix)))
                   ELSE titles[d] ]
        /\ title_meta' = [ title_suffix |-> common_suffix,
                           lines |-> CommonOf("meta")
                                     \cup CommonOf("link") ]
        /\ head_css' = { e \in corpus[1].head : IsStylesheetLink(e) }
                       \cup CommonOf("style")
                       \cup CommonOf("script")
        /\ footer_scripts' = common_js
        /\ common_js_srcs' = common_js
  /\ pc' = "mine"
  /\ UNCHANGED << corpus, bands, orderVars, docPos, mineVars, clusterVars, partials, out, prev >>

----------------------------------------------------------------------------
(* Two runs over one corpus *)

\* what a run leaves behind: the ids given to the elements, the clusters, the
\* partials and the rewritten documents
Result ==
  [ ids |-> marker, clusters |-> clusters, partials |-> partials, out |-> out ]

\* the live trees before any element is tagged
Untagged(c) == [ d \in 1..Len(c) |-> [ n \in DOMAIN c[d].body |-> NoKey ] ]

\* HtmlRefactorer.__init__, lines 37-53
Constructed ==
  /\ bands \in SUBSET NearPairs(corpus)
  /\ tagorder = {}
  /\ keyorder = {}
  /\ pc = "head"
  /\ title_meta = [ title_suffix |-> << >>, lines |-> {} ]
  /\ head_css = {}
  /\ footer_scripts = {}
  /\ page_titles = << >>
  /\ common_js_srcs = {}
  /\ docPos = 1
  /\ idx = 0
  /\ items = << >>
  /\ lsh = {}
  /\ marker = Untagged(corpus)
  /\ soups = << >>
  /\ failed = {}
  /\ visited = {}
  /\ clusters = << >>
  /\ seedPos = 1
  /\ seedOrder = << >>
  /\ decisions = {}
  /\ partials = << >>
  /\ out = << >>

\* a second process runs the program over the same source directory: the
\* sketches are the same (MinHash is seeded by a constant), the hash seed is new
Rerun ==
  /\ pc = "done"
  /\ prev = NoRun
  /\ prev' = Result
  /\ corpus' = corpus
  /\ bands' = bands
  /\ tagorder' = {}
  /\ keyorder' = {}
  /\ pc' = "head"
  /\ title_meta' = [ title_suffix |-> << >>, lines |-> {} ]
  /\ head_css' = {}
  /\ footer_scripts' = {}
  /\ page_titles' = << >>
  /\ common_js_srcs' = {}
  /\ docPos' = 1
  /\ idx' = 0
  /\ items' = << >>
  /\ lsh' = {}
  /\ marker' = Untagged(corpus)
  /\ soups' = << >>
  /\ failed' = {}
  /\ visited' = {}
  /\ clusters' = << >>
  /\ seedPos' = 1
  /\ seedOrder' = << >>
  /\ decisions' = {}
  /\ partials' = << >>
  /\ out' = << >>

----------------------------------------------------------------------------
(* The pages the runs are given *)

\* body elements: tag, nodes, comments, shingles of its own paths, fingerprint,
\* canonical, text
NavA  == El("nav", 40, 0, {1, 2, 3, 4, 5}, {}, "ok", 1)
NavA2 == El("nav", 40, 0, {1, 2, 3, 4, 5}, {}, "ok", 2)
NavB  == El("nav", 36, 0, {1, 2, 3, 4}, 1..6, "ok", 1)
NavD  == El("nav", 33, 0, {1, 2, 3, 4, 5}, {}, "ok", 1)
NavE  == El("nav", 34, 0, {1, 2, 3, 4, 5}, {1}, "ok", 1)
NavF  == El("nav", 40, 0, {1, 2, 6, 7, 8}, {}, "ok", 1)
Comm  == El("nav", 0, 30, {}, {}, "ok", 1)
Flat  == El("aside", 40, 0, {}, {1, 2}, "ok", 1)
Hdr   == El("header", 5, 0, {11, 12, 13}, {30, 31}, "ok", 1)
DivG  == El("div", 40, 0, {21, 22, 23}, 40..50, "ok", 1)
Wrap  == El("main", 3, 0, {}, {}, "ok", 1)
BigP  == El("p", 50, 0, {1, 2, 3, 4, 5}, {}, "ok", 1)
Small == El("footer", 10, 0, {1, 2, 3, 4, 5}, {}, "ok", 1)
Edge  == El("aside", 29, 0, {1, 2, 3, 4, 5}, {}, "ok", 1)
Foot  == El("footer", 20, 10, {1, 2, 3, 4, 5}, {}, "ok", 1)
Mal   == El("header", 35, 0, {1, 2, 3, 4, 5}, {}, "none", 1)
Boom  == El("aside", 35, 0, {1, 2, 3, 4, 5}, {}, "raises", 1)

PlainPage(body) ==
  [ title |-> << >>, head |-> {}, scripts |-> {}, body |-> body ]

ScenarioPages ==
  { PlainPage(b) : b \in
      { << NavA >>, << NavB >>, << Small >>, << Foot >>, << DivG >>,
        << Hdr, In(NavA, 1) >>, << Wrap, In(DivG, 1) >>,
        << NavA, Boom >>, << Mal, NavA >>, << NavA, Mal >>,
        << NavA, NavA >>, << NavA, NavA2 >>, << Edge, BigP >>,
        << In(Small, 0), In(Edge, 1) >> } }

\* the scenario pages all of whose elements canonicalize
WellFormedPages ==
  { p \in ScenarioPages : \A n \in DOMAIN p.body : p.body[n].canon = "ok" }

FlatPages ==
  { PlainPage(<< e >>) : e \in { NavA, NavB, NavD, NavE, NavF, Comm, Flat } }

SeqsUpTo(S, n) == UNION { [ 1..k -> S ] : k \in 1..n }

\* a navigation bar that page d alone has
OwnNav(d) == El("nav", 40, 0, { 100 + d }, {}, "ok", 1)

\* a corpus of OrderDocs one-candidate pages: each page has a bar of its own,
\* but for at most three pages that share one template
OrderCorpora ==
  { [ d \in 1..OrderDocs |-> PlainPage(<< IF d \in Y THEN NavA ELSE OwnNav(d) >>) ] :
      Y \in { T \in SUBSET (1..OrderDocs) : Cardinality(T) <= 3 } }

\* head elements: tag, charset, rel, src, inline body, text
MetaCharset == HeadEl("meta", TRUE, << >>, FALSE, FALSE, 1)
MetaDesc    == HeadEl("meta", FALSE, << >>, FALSE, FALSE, 1)
LinkCss     == HeadEl("link", FALSE, << "stylesheet" >>, FALSE, FALSE, 1)
LinkIcon    == HeadEl("link", FALSE, << "icon" >>, FALSE, FALSE, 1)
LinkPreload == HeadEl("link", FALSE, << "preload", "stylesheet" >>, FALSE, FALSE, 1)
StyleBlock  == HeadEl("style", FALSE, << >>, FALSE, TRUE, 1)
ScriptSrc   == HeadEl("script", FALSE, << >>, TRUE, FALSE, 1)
ScriptCode  == HeadEl("script", FALSE, << >>, FALSE, TRUE, 1)
ScriptEmpty == HeadEl("script", FALSE, << >>, FALSE, FALSE, 1)

HeadElems == { MetaCharset, MetaDesc, LinkCss, LinkIcon, LinkPreload,
               StyleBlock, ScriptSrc, ScriptCode, ScriptEmpty }

Titles == { << "H", " ", "|", " ", "X" >>, << "A", " ", "|", " ", "X" >> }

HeadPages(maxHead) ==
  { [ title |-> t, head |-> h, scripts |-> s, body |-> << NavA >> ] :
      t \in Titles,
      h \in { H \in SUBSET HeadElems : Cardinality(H) <= maxHead },
      s \in { {}, { "a.js" }, { "a.js", "b.js" } } }

\* corpora of byte-identical pages
SameCorpora ==
  { [ d \in 1..k |-> p ] : k \in 1..MaxSameDocs, p \in HeadPages(3) }

\* corpora of two pages that may differ
MixedCorpora ==
  { << p, q >> : p \in HeadPages(2),
                 q \in { r \in HeadPages(1) : r.scripts # { "a.js", "b.js" } } }

----------------------------------------------------------------------------
(* Properties *)

Members(cluster) == Range(cluster)
IsInclude(x) == x[1] = "include"
\* nk was taken into the cluster that seed started
JoinedClusterOf(seed, nk) ==
  \E i \in DOMAIN clusters :
    /\ clusters[i][1] = seed
    /\ \E j \in 2..Len(clusters[i]) : clusters[i][j] = nk

\* C1: every candidate id is in at most one cluster of the cluster list, at
\* one position, and every cluster of the list has at least two members.
C1_Partition ==
  /\ \A i, j \in DOMAIN clusters :
       \A a \in DOMAIN clusters[i], b \in DOMAIN clusters[j] :
         clusters[i][a] = clusters[j][b] => (i = j /\ a = b)
  /\ \A i \in DOMAIN clusters :
       Len(clusters[i]) >= 2 /\ Members(clusters[i]) \subseteq DOMAIN items

\* a finished pass that kept a cluster and in which a later seed was offered
\* a candidate already claimed
C1_Witness ==
  /\ pc = "done"
  /\ Len(clusters) >= 1
  /\ \E d \in decisions : d.claimed /\ d.nk # d.seed /\ d.nk \in visited
  /\ \E k \in DOMAIN items : \A i \in DOMAIN clusters : k \notin Members(clusters[i])

\* C2: a second run over the same corpus ends with the same element ids, the
\* same clusters (members in the same order), the same partials and the same
\* rewritten documents as the first.
C2_Deterministic ==
  (pc = "done" /\ prev # NoRun) => Result = prev

\* C3: a key the index query returned for a seed joins the seed's cluster
\* exactly when it is not the seed, is unclaimed, its fingerprint is within
\* SIMHASH_DISTANCE bits of the seed's and the smaller size is at least 0.85
\* of the larger (a size of 0 on either side waives the size test); and only
\* keys the query returned join a cluster.
C3_Acceptance ==
  /\ \A d \in decisions :
       LET n1 == items[d.seed].size
           n2 == items[d.nk].size
       IN JoinedClusterOf(d.seed, d.nk) <=>
            /\ d.nk # d.seed
            /\ ~ d.claimed
            /\ Distance(items[d.seed].fp, items[d.nk].fp) <= 6
            /\ \/ n1 = 0
               \/ n2 = 0
               \/ 100 * Min(n1, n2) >= 85 * Max(n1, n2)
  /\ \A i \in DOMAIN clusters : \A j \in 2..Len(clusters[i]) :
       [ seed |-> clusters[i][1], nk |-> clusters[i][j], claimed |-> FALSE ]
         \in decisions

\* one seed took a key at exactly distance 6 and refused an unclaimed key
\* within distance 6 for its size alone
C3_Witness ==
  \E a, b \in decisions :
    /\ a.seed = b.seed /\ a.nk # b.nk
    /\ JoinedClusterOf(a.seed, a.nk)
    /\ Distance(items[a.seed].fp, items[a.nk].fp) = 6
    /\ ~ b.claimed /\ ~ JoinedClusterOf(b.seed, b.nk)
    /\ Distance(items[b.seed].fp, items[b.nk].fp) <= 6

\* C4: in the written document of every recorded instance's page, the element
\* mined under the instance's id is replaced by the include of the instance's
\* partial, and nothing else is replaced by an include.
C4_InstancesReplaced ==
  pc = "done" =>
    /\ \A i \in DOMAIN partials : \A j \in DOMAIN partials[i].instances :
         LET inst == partials[i].instances[j]
             p == inst.source_file
         IN p \in DOMAIN out =>
              out[p].tree[items[inst.refactor_id].node]
                = << "include", partials[i].partial_file >>
    /\ \A p \in DOMAIN out : \A n \in DOMAIN out[p].tree :
         IsInclude(out[p].tree[n]) =>
           \E i \in DOMAIN partials : \E j \in DOMAIN partials[i].instances :
             LET inst == partials[i].instances[j]
             IN /\ inst.source_file = p
                /\ items[inst.refactor_id].node = n
                /\ out[p].tree[n] = << "include", partials[i].partial_file >>

\* C5: the body of every partial is the raw markup of the element of the
\* cluster's first member, and no element in it carries a marker.
C5_PristineBody ==
  \A i \in DOMAIN partials :
    LET body == partials[i].body
        seed == clusters[i][1]
    IN /\ partials[i].medoid = seed
       /\ body.source = "raw_tag_html"
       /\ body.page = items[seed].page /\ body.node = items[seed].node
       /\ \A n \in DOMAIN body.marks : body.marks[n] = NoKey

\* C6: a page whose mining raised has no element among the candidates or in
\* the index, none in a cluster or among the instances of a partial, and no
\* written document.
C6_FailedPageSkipped ==
  \A d \in failed :
    /\ \A k \in DOMAIN items : items[k].page # d
    /\ \A k \in lsh : k \in DOMAIN items => items[k].page # d
    /\ \A i \in DOMAIN clusters : \A k \in Members(clusters[i]) :
         items[k].page # d
    /\ \A i \in DOMAIN partials : \A j \in DOMAIN partials[i].instances :
         partials[i].instances[j].source_file # d
    /\ d \notin DOMAIN out

SamePages == \A d \in DOMAIN corpus : corpus[d] = corpus[1]
HeadTags == { "meta", "link", "style", "script" }

\* C7, as stated: for byte-identical pages the head fragments hold every meta,
\* link, style and script element of the head, and the footer fragment every
\* body-script source.
C7_EveryHeadElement ==
  (pc # "head" /\ SamePages) =>
    /\ \A e \in corpus[1].head :
         e.tag \in HeadTags => e \in title_meta.lines \cup head_css
    /\ corpus[1].scripts \subseteq footer_scripts

\* C7, amended: for byte-identical pages the head fragments hold every meta
\* element without a charset attribute, every link, every style and every
\* head script that has a src or an inline body, and the footer fragment
\* every body-script source.
C7_CommonHeadElements ==
  (pc # "head" /\ SamePages) =>
    /\ \A e \in corpus[1].head :
         ( \/ e.tag = "meta" /\ ~ e.charset
           \/ e.tag = "link"
           \/ e.tag = "style"
           \/ e.tag = "script" /\ (e.src \/ e.inline) )
         => e \in title_meta.lines \cup head_css
    /\ corpus[1].scripts \subseteq footer_scripts

\* three identical pages with a charset meta, two links, an inline head script
\* and two body scripts, all but the charset meta in the fragments
C7_Witness ==
  /\ pc = "done" /\ SamePages /\ Len(corpus) = 3
  /\ corpus[1].head = { MetaCharset, LinkCss, ScriptCode }
  /\ LinkCss \in head_css /\ ScriptCode \in head_css
  /\ MetaCharset \notin title_meta.lines \cup head_css
  /\ footer_scripts = { "a.js", "b.js" }

\* the size the threshold is stated for: element descendants plus non-blank
\* text descendants, comments not among them
ElementAndTextSize(page, n) ==
  LET D == Subtree(page, n)
  IN SumOver([ c \in D |-> page[c].nodes ], D) + (Cardinality(D) - 1)

\* C8: every candidate is a priority-tag element or a div/section child of
\* body, and its element descendants plus non-blank text descendants number
\* at least 30; an element with fewer has no id, is no candidate, is the root
\* of no partial and is not replaced by an include.
C8_Threshold ==
  /\ \A k \in DOMAIN items :
       LET page == corpus[items[k].page].body
           n == items[k].node
       IN /\ \/ page[n].tag \in { "header", "nav", "footer", "aside" }
             \/ page[n].tag \in { "div", "section" } /\ page[n].parent = 0
          /\ ElementAndTextSize(page, n) >= 30
  /\ \A d \in DOMAIN corpus : \A n \in DOMAIN corpus[d].body :
       ElementAndTextSize(corpus[d].body, n) < 30 =>
         /\ marker[d][n] = NoKey
         /\ \A k \in DOMAIN items : ~ (items[k].page = d /\ items[k].node = n)
         /\ \A i \in DOMAIN partials :
              ~ (partials[i].body.page = d /\ partials[i].body.node = n)
         /\ d \in DOMAIN out => ~ IsInclude(out[d].tree[n])

NumericallyAscending(s) == \A i, j \in DOMAIN s : i < j => s[i] < s[j]
LexAscending(s) == \A i, j \in DOMAIN s : i < j => KeyLess(s[i], s[j])

\* C9, as stated: seeds are visited in ascending order of id number, every
\* cluster's representative is its member of smallest id number, and the
\* clusters are listed in order of their smallest id number.
C9_NumericSeedOrder ==
  /\ NumericallyAscending(seedOrder)
  /\ \A i \in DOMAIN clusters : \A k \in Members(clusters[i]) :
       clusters[i][1] <= k
  /\ NumericallyAscending([ i \in DOMAIN clusters |-> clusters[i][1] ])

\* C9, amended: seeds are visited in ascending order of the id string
\* ("c_10" before "c_2"), every cluster's representative is its member with
\* the least id string, and the clusters are listed in that order of their
\* representatives.
C9_StringSeedOrder ==
  /\ LexAscending(seedOrder)
  /\ \A i \in DOMAIN clusters : \A k \in Members(clusters[i]) \ { clusters[i][1] } :
       KeyLess(clusters[i][1], k)
  /\ LexAscending([ i \in DOMAIN clusters |-> clusters[i][1] ])

\* c_10 was a seed before c_2, and represents a kept cluster
C9_Witness ==
  /\ pc = "done"
  /\ \E i, j \in DOMAIN seedOrder : i < j /\ seedOrder[i] = 10 /\ seedOrder[j] = 2
  /\ \E i \in DOMAIN clusters : clusters[i][1] = 10

\* C10: every element the rewriter removed from a written page's head is in
\* title-meta.html or head-css.html.
C10_NoHeadLoss ==
  \A p \in DOMAIN out : \A e \in out[p].decomposed :
    e \in title_meta.lines \cup head_css

----------------------------------------------------------------------------
(* Specifications *)

Init == corpus \in SeqsUpTo(ScenarioPages, MaxDocs)
        /\ prev = NoRun /\ Constructed

InitWellFormed == corpus \in SeqsUpTo(WellFormedPages, MaxDocs)
                  /\ prev = NoRun /\ Constructed

InitFlat == corpus \in SeqsUpTo(FlatPages, MaxFlatDocs)
            /\ prev = NoRun /\ Constructed

InitOrder == corpus \in OrderCorpora
             /\ prev = NoRun /\ Constructed

InitHead == corpus \in SameCorpora \cup MixedCorpora
            /\ prev = NoRun /\ Constructed

Next ==
  \/ ExtractCommonHeadAndFooter
  \/ MineDoc
  \/ ClusterSeed
  \/ ExtractPartials
  \/ ReplaceInFile

NextRerun == Next \/ Rerun

Spec == Init /\ [][Next]_vars
SpecFlat == InitFlat /\ [][Next]_vars
SpecOrder == InitOrder /\ [][Next]_vars
SpecHead == InitHead /\ [][Next]_vars
SpecWellFormed == InitWellFormed /\ [][Next]_vars
SpecRerun == InitWellFormed /\ [][NextRerun]_vars

====
